---- MODULE Spec2Model ----
(***************************************************************************)
(* NOTY backend: the authorization guard (authenticateToken) and the note  *)
(* lifecycle routes (get, create, update, archive, unarchive, trash,       *)
(* restore, delete, lists, stats) over the stored users and notes.         *)
(*                                                                         *)
(* Every request is a slot of `req`.  A step of the model is one storage   *)
(* call with the code around it: the guard with its user lookup, then the  *)
(* handler the router dispatches to, one step per storage call.  The       *)
(* method, path and body of a request are drawn where the code first reads *)
(* them.  Storage calls are atomic and do not fail.                        *)
(***************************************************************************)
EXTENDS Integers, Sequences, FiniteSets, TLC

\* ---------------------------------------------------------------- bounds
\* number of notes ever created (cuid never reuses an id)
MaxNotes == 2
\* longest string a request body carries
MaxLen == 2
\* letters in the local part of an email address
MaxEmailLen == 1
\* days the clock runs
MaxTime == 8
\* the number of notes in the stores the list is queried over
MaxListed == 3

\* ------------------------------------------------------------- constants
\* expiresIn: '7d', in days
TokenLifetime == 7
\* const { page = 1, limit = 20, search } = req.query
DefaultPage == 1
DefaultLimit == 20
\* password.length < 6
MinPasswordLength == 6

\* ------------------------------------------------------------- universes
Requests == {"r1", "r2"}
\* ids a signed token can embed: u1, u2 are stored, u3 was removed from storage
TokenIds == {"u1", "u2", "u3"}
NoUser == "nobody"
NoteIds == 1..MaxNotes

\* " " stands for every whitespace character, "a" for every other one
Chars == {" ", "a"}
Strings == UNION {[1..k -> Chars] : k \in 0..MaxLen}
\* a field the JSON body does not carry (undefined)
Missing == <<"undefined">>
\* a truthy JSON value that is no string (a number, an array): it has no trim()
NotAString == <<"number">>
BodyValues == Strings \cup {Missing, NotAString}

TransitionOps == {"archive", "unarchive", "trash", "restore"}

\* a column that holds NULL, a body field that is null
Null == <<"null">>
\* the local part of an address somebody@example.com; "A" is the capital of "a"
EmailChars == {"a", "A", "b"}
Emails == UNION {[1..k -> EmailChars] : k \in 1..MaxEmailLen}
\* a string the email pattern does not match
BadEmail == <<"@">>
EmailValues == Emails \cup {BadEmail, Missing}
\* one password too short, two long enough
Passwords ==
    {[i \in 1..(MinPasswordLength - 1) |-> "p"],
     [i \in 1..MinPasswordLength |-> "p"], [i \in 1..MinPasswordLength |-> "q"]}
PasswordValues == Passwords \cup {Missing}
SampleName == <<"n">>
NameValues == {SampleName, Missing}
\* the ids the identity provider knows its accounts by
GoogleIds == {"g1", "g2"}
\* the googleId column of a user that never logged in with Google (NULL)
NoGoogleId == "null"
Times == 0..MaxTime

\* ------------------------------------------------------------------ state
VARIABLES
    users,   \* stored users: user id -> [email, password, googleId, name]
    now,     \* the clock, in days
    notes,   \* stored notes: note id -> [userId, title, content, status]
    nextId,  \* the id the next created note gets
    req,     \* the requests: slot -> [pc, tok, user, op, id, input, res, body]
    recent,  \* the ids of the stored notes, latest updatedAt first
    calls,   \* slot -> the number of storage calls issued for its request
    notes0   \* history: the stored notes when the first request arrived

vars == <<users, now, notes, nextId, req, recent, calls, notes0>>

\* ------------------------------------------------------- pure functions
\* String.prototype.trim: drops leading and trailing whitespace
RECURSIVE TrimLeft(_)
TrimLeft(s) == IF s # <<>> /\ Head(s) = " " THEN TrimLeft(Tail(s)) ELSE s

RECURSIVE TrimRight(_)
TrimRight(s) ==
    IF s # <<>> /\ s[Len(s)] = " " THEN TrimRight(SubSeq(s, 1, Len(s) - 1)) ELSE s

Trim(s) == TrimRight(TrimLeft(s))

\* JavaScript !v for a body field: undefined and "" are falsy
Falsy(v) == v = Missing \/ v = <<>>

\* String.prototype.toLowerCase
toLowerCase(e) == [i \in DOMAIN e |-> IF e[i] = "A" THEN "a" ELSE e[i]]

\* bcrypt.hash: a value that is not the password and that only the password matches
hashPassword(password) == <<"bcrypt", password>>

\* bcrypt.compare of a password with a stored hash
comparePassword(password, hash) == hash = hashPassword(password)

\* the authorization header: absent (or without a second word), or a bearer token
NoHeader == [kind |-> "none"]
\* a bearer string that is no JWT signed with the secret
Malformed == [kind |-> "malformed"]
Tokens == [kind : {"jwt"}, id : TokenIds, iat : Times]
\* the headers a request can carry today: a token issued on the first day or today
Headers == {NoHeader, Malformed} \cup {t \in Tokens : t.iat \in {0, now}}
\* the headers a request can carry today: any token issued up to today
HeadersIssued == {NoHeader, Malformed} \cup {t \in Tokens : t.iat <= now}

\* jwt.sign with expiresIn: the id of the user and the day of issue
generateToken(id) == [kind |-> "jwt", id |-> id, iat |-> now]

\* a verification that does not look at the expiry
verifyTokenNoExpiry(tok) ==
    IF tok.kind # "jwt" THEN [ok |-> FALSE, name |-> "JsonWebTokenError"]
    ELSE [ok |-> TRUE, id |-> tok.id]

\* a verification that lets a token live one day longer
verifyTokenLate(tok) ==
    IF tok.kind # "jwt" THEN [ok |-> FALSE, name |-> "JsonWebTokenError"]
    ELSE IF now > tok.iat + TokenLifetime THEN [ok |-> FALSE, name |-> "TokenExpiredError"]
    ELSE [ok |-> TRUE, id |-> tok.id]

\* jwt.verify: the signature is checked first, then the expiry (now >= exp)
verifyToken(tok) ==
    IF tok.kind # "jwt" THEN [ok |-> FALSE, name |-> "JsonWebTokenError"]
    ELSE IF now >= tok.iat + TokenLifetime THEN [ok |-> FALSE, name |-> "TokenExpiredError"]
    ELSE [ok |-> TRUE, id |-> tok.id]

\* ---------------------------------------------------------------- slots
NoBody == [kind |-> "none"]
\* req.body of a request that carries no title and no content
NoInput == [title |-> Missing, content |-> Missing]
Idle == [pc |-> "idle", tok |-> NoHeader, user |-> NoUser, op |-> "none", id |-> 0,
         input |-> NoInput, res |-> 0, body |-> NoBody]

ErrorBody(msg) == [kind |-> "error", error |-> msg]
MessageBody(msg) == [kind |-> "message", message |-> msg]
NoteBody(n, rec) == [kind |-> "note", id |-> n, note |-> rec]
ListBody(ids) == [kind |-> "list", notes |-> ids]

\* the router runs the handler of `op` (with :id `id`) for a request the guard let pass
Dispatch(s) == req[s].pc = "handler"

\* res.status(code).json(body): the request is answered
Respond(s, op, id, code, body) ==
    req' = [req EXCEPT ![s].pc = "done", ![s].op = op, ![s].id = id,
                       ![s].res = code, ![s].body = body]

\* the same for a handler that read title and content from req.body
RespondInput(s, op, id, title, content, code, body) ==
    req' = [req EXCEPT ![s].pc = "done", ![s].op = op, ![s].id = id,
                       ![s].input = [title |-> title, content |-> content],
                       ![s].res = code, ![s].body = body]

\* the handler awaits its second storage call
Await(s, op, id) ==
    req' = [req EXCEPT ![s].pc = "found", ![s].op = op, ![s].id = id]

\* the same for a handler that read title and content from req.body
AwaitInput(s, op, id, title, content) ==
    req' = [req EXCEPT ![s].pc = "found", ![s].op = op, ![s].id = id,
                       ![s].input = [title |-> title, content |-> content]]

\* one more storage call (k = 1) has been issued for the request of slot s
Called(s, k) == calls' = [calls EXCEPT ![s] = @ + k]

\* two users: one registered with a password, one who came through the identity
\* provider
StoredUsers ==
    ("u1" :> [email |-> <<"a">>,
              password |-> hashPassword([i \in 1..MinPasswordLength |-> "p"]),
              googleId |-> NoGoogleId, name |-> SampleName])
    @@ ("u2" :> [email |-> <<"b">>, password |-> Null, googleId |-> "g1",
                 name |-> SampleName])

Init ==
    /\ users = StoredUsers
    /\ now = TokenLifetime
    /\ notes = <<>>
    /\ recent = <<>>
    /\ nextId = 1
    /\ req = [s \in Requests |-> Idle]
    /\ calls = [s \in Requests |-> 0]
    /\ notes0 = notes

\* a guard that trusts the token's id without looking the user up
authenticateTokenNoLookup(s, h) ==
    /\ req[s].pc = "idle"
    /\ LET reject(code, msg) ==
               req' = [req EXCEPT ![s] = [Idle EXCEPT !.pc = "done", !.tok = h,
                                                      !.res = code,
                                                      !.body = ErrorBody(msg)]]
       IN  IF h = NoHeader
           THEN reject(401, "Access denied. No token provided.")
           ELSE LET decoded == verifyToken(h) IN
                IF ~decoded.ok
                THEN IF decoded.name = "TokenExpiredError"
                     THEN reject(401, "Token expired. Please login again.")
                     ELSE reject(401, "Invalid token format.")
                ELSE req' = [req EXCEPT ![s] =
                                [Idle EXCEPT !.pc = "handler", !.tok = h,
                                             !.user = decoded.id]]
    /\ UNCHANGED <<users, now, notes0, notes, nextId, recent>>
    /\ Called(s, 0)

\* a guard that stamps the user it has let through
authenticateTokenStamps(s, h) ==
    /\ req[s].pc = "idle"
    /\ LET reject(code, msg) ==
               /\ req' = [req EXCEPT ![s] = [Idle EXCEPT !.pc = "done", !.tok = h,
                                                         !.res = code,
                                                         !.body = ErrorBody(msg)]]
               /\ UNCHANGED users
       IN  IF h = NoHeader
           THEN reject(401, "Access denied. No token provided.")
           ELSE LET decoded == verifyToken(h) IN
                IF ~decoded.ok
                THEN IF decoded.name = "TokenExpiredError"
                     THEN reject(401, "Token expired. Please login again.")
                     ELSE reject(401, "Invalid token format.")
                ELSE IF decoded.id \notin DOMAIN users
                     THEN reject(401, "Invalid token. User not found.")
                     ELSE /\ req' = [req EXCEPT ![s] =
                                        [Idle EXCEPT !.pc = "handler", !.tok = h,
                                                     !.user = decoded.id]]
                          /\ users' = [users EXCEPT ![decoded.id].name = Missing]
    /\ UNCHANGED <<now, notes0, notes, nextId, recent>>
    /\ Called(s, IF h = NoHeader \/ ~verifyToken(h).ok THEN 0 ELSE 1)

\* ---------------------------------------------------------------- guard
\* a request arrives with authorization header `h`
authenticateToken(s, h) ==
    /\ req[s].pc = "idle"
    /\ LET reject(code, msg) ==
               req' = [req EXCEPT ![s] = [Idle EXCEPT !.pc = "done", !.tok = h,
                                                      !.res = code,
                                                      !.body = ErrorBody(msg)]]
       IN  IF h = NoHeader
           THEN reject(401, "Access denied. No token provided.")
           ELSE LET decoded == verifyToken(h) IN
                IF ~decoded.ok
                THEN IF decoded.name = "TokenExpiredError"
                     THEN reject(401, "Token expired. Please login again.")
                     ELSE reject(401, "Invalid token format.")
                ELSE IF decoded.id \notin DOMAIN users
                     THEN reject(401, "Invalid token. User not found.")
                     ELSE req' = [req EXCEPT ![s] =
                                     [Idle EXCEPT !.pc = "handler", !.tok = h,
                                                  !.user = decoded.id]]
    /\ UNCHANGED <<users, now, notes0, notes, nextId, recent>>
    /\ Called(s, IF h = NoHeader \/ ~verifyToken(h).ok THEN 0 ELSE 1)

\* @updatedAt: a written note becomes the most recently updated one
Touch(id) == <<id>> \o SelectSeq(recent, LAMBDA n : n # id)

\* ------------------------------------------------------------- handlers
\* where id, userId
Owned(n, u) == n \in DOMAIN notes /\ notes[n].userId = u

\* a lookup by id alone
getNoteAnyOwner(s, id) ==
    /\ Dispatch(s)
    /\ IF id \in DOMAIN notes
       THEN Respond(s, "get", id, 200, NoteBody(id, notes[id]))
       ELSE Respond(s, "get", id, 404, ErrorBody("Note not found"))
    /\ UNCHANGED <<users, now, notes0, notes, nextId, recent>>
    /\ Called(s, 1)

\* GET /api/notes/:id
getNote(s, id) ==
    /\ Dispatch(s)
    /\ IF Owned(id, req[s].user)
       THEN Respond(s, "get", id, 200, NoteBody(id, notes[id]))
       ELSE Respond(s, "get", id, 404, ErrorBody("Note not found"))
    /\ UNCHANGED <<users, now, notes0, notes, nextId, recent>>
    /\ Called(s, 1)

\* a create that takes the owner from the body when the body names one
createNoteBodyOwner(s, title, content, owner) ==
    /\ Dispatch(s)
    /\ LET fail(code, msg) ==
               /\ RespondInput(s, "create", 0, title, content, code, ErrorBody(msg))
               /\ UNCHANGED <<notes, nextId, recent>>
       IN  IF Falsy(title) \/ Falsy(content)
           THEN fail(400, "Title and content are required")
           ELSE IF title = NotAString
           THEN fail(500, "Failed to create note")
           ELSE IF Trim(title) = <<>>
           THEN fail(400, "Title and content cannot be empty")
           ELSE IF content = NotAString
           THEN fail(500, "Failed to create note")
           ELSE IF Trim(content) = <<>>
           THEN fail(400, "Title and content cannot be empty")
           ELSE /\ nextId <= MaxNotes
                /\ LET note == [userId |-> IF owner = NoUser THEN req[s].user ELSE owner, title |-> Trim(title),
                                content |-> Trim(content), status |-> "ACTIVE"]
                   IN  /\ notes' = (nextId :> note) @@ notes
                       /\ recent' = <<nextId>> \o recent
                       /\ nextId' = nextId + 1
                       /\ RespondInput(s, "create", 0, title, content, 201,
                                       NoteBody(nextId, note))
    /\ UNCHANGED <<users, now, notes0>>
    /\ Called(s, IF req'[s].res = 201 THEN 1 ELSE 0)

\* a create that stores its inputs as they came
createNoteUntrimmed(s, title, content, owner) ==
    /\ Dispatch(s)
    /\ LET fail(code, msg) ==
               /\ RespondInput(s, "create", 0, title, content, code, ErrorBody(msg))
               /\ UNCHANGED <<notes, nextId, recent>>
       IN  IF Falsy(title) \/ Falsy(content)
           THEN fail(400, "Title and content are required")
           ELSE IF title = NotAString
           THEN fail(500, "Failed to create note")
           ELSE IF Trim(title) = <<>>
           THEN fail(400, "Title and content cannot be empty")
           ELSE IF content = NotAString
           THEN fail(500, "Failed to create note")
           ELSE IF Trim(content) = <<>>
           THEN fail(400, "Title and content cannot be empty")
           ELSE /\ nextId <= MaxNotes
                /\ LET note == [userId |-> req[s].user, title |-> title,
                                content |-> content, status |-> "ACTIVE"]
                   IN  /\ notes' = (nextId :> note) @@ notes
                       /\ recent' = <<nextId>> \o recent
                       /\ nextId' = nextId + 1
                       /\ RespondInput(s, "create", 0, title, content, 201,
                                       NoteBody(nextId, note))
    /\ UNCHANGED <<users, now, notes0>>
    /\ Called(s, IF req'[s].res = 201 THEN 1 ELSE 0)

\* POST /api/notes; `owner` is a userId field the client put in the body
createNote(s, title, content, owner) ==
    /\ Dispatch(s)
    /\ LET fail(code, msg) ==
               /\ RespondInput(s, "create", 0, title, content, code, ErrorBody(msg))
               /\ UNCHANGED <<notes, nextId, recent>>
       IN  IF Falsy(title) \/ Falsy(content)
           THEN fail(400, "Title and content are required")
           ELSE IF title = NotAString
           THEN fail(500, "Failed to create note")
           ELSE IF Trim(title) = <<>>
           THEN fail(400, "Title and content cannot be empty")
           ELSE IF content = NotAString
           THEN fail(500, "Failed to create note")
           ELSE IF Trim(content) = <<>>
           THEN fail(400, "Title and content cannot be empty")
           ELSE /\ nextId <= MaxNotes
                /\ LET note == [userId |-> req[s].user, title |-> Trim(title),
                                content |-> Trim(content), status |-> "ACTIVE"]
                   IN  /\ notes' = (nextId :> note) @@ notes
                       /\ recent' = <<nextId>> \o recent
                       /\ nextId' = nextId + 1
                       /\ RespondInput(s, "create", 0, title, content, 201,
                                       NoteBody(nextId, note))
    /\ UNCHANGED <<users, now, notes0>>
    /\ Called(s, IF req'[s].res = 201 THEN 1 ELSE 0)

\* an update that looks the note up before it validates the body
updateNoteFindLookupFirst(s, id, title, content) ==
    /\ Dispatch(s)
    /\ IF ~Owned(id, req[s].user)
       THEN RespondInput(s, "update", id, title, content, 404,
                         ErrorBody("Note not found"))
       ELSE IF Falsy(title) \/ Falsy(content)
       THEN RespondInput(s, "update", id, title, content, 400,
                         ErrorBody("Title and content are required"))
       ELSE AwaitInput(s, "update", id, title, content)
    /\ UNCHANGED <<users, now, notes0, notes, nextId, recent>>
    /\ Called(s, 1)

\* PUT /api/notes/:id, up to the ownership lookup (findFirst)
updateNoteFind(s, id, title, content) ==
    /\ Dispatch(s)
    /\ IF Falsy(title) \/ Falsy(content)
       THEN RespondInput(s, "update", id, title, content, 400,
                         ErrorBody("Title and content are required"))
       ELSE IF ~Owned(id, req[s].user)
       THEN RespondInput(s, "update", id, title, content, 404,
                         ErrorBody("Note not found"))
       ELSE AwaitInput(s, "update", id, title, content)
    /\ UNCHANGED <<users, now, notes0, notes, nextId, recent>>
    /\ Called(s, IF req'[s].res = 400 THEN 0 ELSE 1)

\* a write that creates the note when it is no longer stored
updateNoteWriteUpserts(s) ==
    /\ req[s].pc = "found" /\ req[s].op = "update"
    /\ LET id == req[s].id
           title == req[s].input.title
           content == req[s].input.content
       IN
       IF title = NotAString \/ content = NotAString
       THEN /\ Respond(s, "update", id, 500, ErrorBody("Failed to update note"))
            /\ UNCHANGED <<notes, recent>>
       ELSE LET note == [userId |-> req[s].user, title |-> Trim(title),
                         content |-> Trim(content),
                         status |-> IF id \in DOMAIN notes THEN notes[id].status
                                    ELSE "ACTIVE"]
            IN  /\ notes' = (id :> note) @@ notes
                /\ recent' = Touch(id)
                /\ Respond(s, "update", id, 200, NoteBody(id, note))
    /\ UNCHANGED <<users, now, notes0, nextId>>
    /\ Called(s, IF req[s].input.title = NotAString \/ req[s].input.content = NotAString THEN 0 ELSE 1)

\* a write that also resets the status
updateNoteWriteReactivates(s) ==
    /\ req[s].pc = "found" /\ req[s].op = "update"
    /\ LET id == req[s].id
           title == req[s].input.title
           content == req[s].input.content
       IN
       IF title = NotAString \/ content = NotAString \/ id \notin DOMAIN notes
       THEN /\ Respond(s, "update", id, 500, ErrorBody("Failed to update note"))
            /\ UNCHANGED <<notes, recent>>
       ELSE LET note == [notes[id] EXCEPT !.title = Trim(title),
                                          !.content = Trim(content),
                                          !.status = "ACTIVE"]
            IN  /\ notes' = [notes EXCEPT ![id] = note]
                /\ recent' = Touch(id)
                /\ Respond(s, "update", id, 200, NoteBody(id, note))
    /\ UNCHANGED <<users, now, notes0, nextId>>
    /\ Called(s, IF req[s].input.title = NotAString \/ req[s].input.content = NotAString THEN 0 ELSE 1)

\* PUT /api/notes/:id, the write (update where id) and the response
\* an update that leaves the request unanswered when the write fails
updateNoteWriteSilent(s) ==
    /\ req[s].pc = "found" /\ req[s].op = "update"
    /\ req[s].input.title # NotAString /\ req[s].input.content # NotAString
    /\ req[s].id \in DOMAIN notes
    /\ LET id == req[s].id
           note == [notes[id] EXCEPT !.title = Trim(req[s].input.title),
                                     !.content = Trim(req[s].input.content)]
       IN  /\ notes' = [notes EXCEPT ![id] = note]
           /\ recent' = Touch(id)
           /\ Respond(s, "update", id, 200, NoteBody(id, note))
    /\ UNCHANGED <<users, now, notes0, nextId>>
    /\ Called(s, 1)

updateNoteWrite(s) ==
    /\ req[s].pc = "found" /\ req[s].op = "update"
    /\ LET id == req[s].id
           title == req[s].input.title
           content == req[s].input.content
       IN
       IF title = NotAString \/ content = NotAString \/ id \notin DOMAIN notes
       THEN /\ Respond(s, "update", id, 500, ErrorBody("Failed to update note"))
            /\ UNCHANGED <<notes, recent>>
       ELSE LET note == [notes[id] EXCEPT !.title = Trim(title),
                                          !.content = Trim(content)]
            IN  /\ notes' = [notes EXCEPT ![id] = note]
                /\ recent' = Touch(id)
                /\ Respond(s, "update", id, 200, NoteBody(id, note))
    /\ UNCHANGED <<users, now, notes0, nextId>>
    /\ Called(s, IF req[s].input.title = NotAString \/ req[s].input.content = NotAString THEN 0 ELSE 1)

\* updateMany where id, userId, status in fromStatuses; 404 when no row matched
transitionStatus(s, op, id, fromStatuses, toStatus, notFoundMsg, okMsg) ==
    /\ IF Owned(id, req[s].user) /\ notes[id].status \in fromStatuses
       THEN /\ notes' = [notes EXCEPT ![id].status = toStatus]
            /\ recent' = Touch(id)
            /\ Respond(s, op, id, 200, MessageBody(okMsg))
       ELSE /\ Respond(s, op, id, 404, ErrorBody(notFoundMsg))
            /\ UNCHANGED <<notes, recent>>
    /\ UNCHANGED <<users, now, notes0, nextId>>
    /\ Called(s, 1)

\* an archive without the status condition
archiveNoteAnyStatus(s, id) ==
    /\ Dispatch(s)
    /\ transitionStatus(s, "archive", id, {"ACTIVE", "ARCHIVED", "TRASH"}, "ARCHIVED",
                        "Active note not found", "Note archived successfully")

archiveNote(s, id) ==
    /\ Dispatch(s)
    /\ transitionStatus(s, "archive", id, {"ACTIVE"}, "ARCHIVED",
                        "Active note not found", "Note archived successfully")

\* an unarchive that also takes notes out of the trash
unarchiveNoteFromTrash(s, id) ==
    /\ Dispatch(s)
    /\ transitionStatus(s, "unarchive", id, {"ARCHIVED", "TRASH"}, "ACTIVE",
                        "Archived note not found", "Note unarchived successfully")

unarchiveNote(s, id) ==
    /\ Dispatch(s)
    /\ transitionStatus(s, "unarchive", id, {"ARCHIVED"}, "ACTIVE",
                        "Archived note not found", "Note unarchived successfully")

\* a trash that takes Active notes only
trashNoteActiveOnly(s, id) ==
    /\ Dispatch(s)
    /\ transitionStatus(s, "trash", id, {"ACTIVE"}, "TRASH",
                        "Note not found or already in trash",
                        "Note moved to trash successfully")

trashNote(s, id) ==
    /\ Dispatch(s)
    /\ transitionStatus(s, "trash", id, {"ACTIVE", "ARCHIVED"}, "TRASH",
                        "Note not found or already in trash",
                        "Note moved to trash successfully")

\* a restore that puts the note back among the archived ones
restoreNoteToArchived(s, id) ==
    /\ Dispatch(s)
    /\ transitionStatus(s, "restore", id, {"TRASH"}, "ARCHIVED",
                        "Trashed note not found", "Note restored successfully")

restoreNote(s, id) ==
    /\ Dispatch(s)
    /\ transitionStatus(s, "restore", id, {"TRASH"}, "ACTIVE",
                        "Trashed note not found", "Note restored successfully")

\* DELETE /api/notes/:id, up to the ownership lookup (findFirst)
deleteNoteFind(s, id) ==
    /\ Dispatch(s)
    /\ IF ~Owned(id, req[s].user)
       THEN Respond(s, "delete", id, 404, ErrorBody("Note not found"))
       ELSE Await(s, "delete", id)
    /\ UNCHANGED <<users, now, notes0, notes, nextId, recent>>
    /\ Called(s, 1)

\* a removal that takes every note of the same owner with it
deleteNoteRemoveAllOwned(s) ==
    /\ req[s].pc = "found" /\ req[s].op = "delete"
    /\ LET id == req[s].id IN
       IF id \notin DOMAIN notes
       THEN /\ Respond(s, "delete", id, 500, ErrorBody("Failed to delete note"))
            /\ UNCHANGED <<notes, recent>>
       ELSE /\ notes' = [n \in {m \in DOMAIN notes : notes[m].userId # notes[id].userId}
                            |-> notes[n]]
            /\ recent' = SelectSeq(recent, LAMBDA n : notes[n].userId # notes[id].userId)
            /\ Respond(s, "delete", id, 200, MessageBody("Note permanently deleted"))
    /\ UNCHANGED <<users, now, notes0, nextId>>
    /\ Called(s, 1)

\* DELETE /api/notes/:id, the removal (delete where id) and the response
deleteNoteRemove(s) ==
    /\ req[s].pc = "found" /\ req[s].op = "delete"
    /\ LET id == req[s].id IN
       IF id \notin DOMAIN notes
       THEN /\ Respond(s, "delete", id, 500, ErrorBody("Failed to delete note"))
            /\ UNCHANGED <<notes, recent>>
       ELSE /\ notes' = [n \in DOMAIN notes \ {id} |-> notes[n]]
            /\ recent' = SelectSeq(recent, LAMBDA n : n # id)
            /\ Respond(s, "delete", id, 200, MessageBody("Note permanently deleted"))
    /\ UNCHANGED <<users, now, notes0, nextId>>
    /\ Called(s, 1)

\* the ids of the notes of user u in status st (where userId, status)
NotesOf(u, st) == {n \in DOMAIN notes : notes[n].userId = u /\ notes[n].status = st}

\* GET /api/notes, /api/notes/archived, /api/notes/trash: the matching notes
listByStatus(s, op, st) ==
    /\ Respond(s, op, 0, 200,
               ListBody(SelectSeq(recent, LAMBDA n : n \in NotesOf(req[s].user, st))))
    /\ UNCHANGED <<users, now, notes0, notes, nextId, recent>>
    /\ Called(s, 1)

\* contains: term occurs in text
Contains(text, term) ==
    \E i \in 1..(Len(text) - Len(term) + 1) : SubSeq(text, i, i + Len(term) - 1) = term

\* where OR [title contains search, content contains search], mode insensitive;
\* no condition when search is absent or empty
MatchesSearch(n, search) ==
    \/ Falsy(search)
    \/ Contains(toLowerCase(notes[n].title), toLowerCase(search))
    \/ Contains(toLowerCase(notes[n].content), toLowerCase(search))

\* where userId, status ACTIVE and the search condition, orderBy updatedAt desc
ActiveMatching(u, search) ==
    SelectSeq(recent, LAMBDA n : n \in NotesOf(u, "ACTIVE") /\ MatchesSearch(n, search))

\* skip and take over the ordered rows
Slice(rows, skip, take) ==
    SubSeq(rows, skip + 1, IF skip + take < Len(rows) THEN skip + take ELSE Len(rows))

\* Math.ceil(total / limit)
Pages(total, limit) == (total + limit - 1) \div limit

\* the rows findMany returned, kept until count returns
RowsBody(rows) == [kind |-> "rows", notes |-> rows]
PageBody(rows, page, limit, total) ==
    [kind |-> "list", notes |-> rows, page |-> page, limit |-> limit,
     total |-> total, pages |-> Pages(total, limit)]

\* a list that takes one row more than the page size
listActiveNotesExtraRow(s, page, limit, search) ==
    /\ Dispatch(s)
    /\ LET skip == (page - 1) * limit
           query == [page |-> page, limit |-> limit, search |-> search]
       IN  IF skip < 0
           THEN req' = [req EXCEPT ![s].pc = "done", ![s].op = "listActive",
                                   ![s].input = query, ![s].res = 500,
                                   ![s].body = ErrorBody("Failed to fetch notes")]
           ELSE req' = [req EXCEPT ![s].pc = "found", ![s].op = "listActive",
                                   ![s].input = query,
                                   ![s].body = RowsBody(Slice(ActiveMatching(req[s].user, search),
                                                              skip, limit + 1))]
    /\ UNCHANGED <<users, now, notes0, notes, nextId, recent>>
    /\ Called(s, IF req'[s].res = 500 THEN 2 ELSE 1)

\* GET /api/notes, the findMany of Promise.all: skip = (page - 1) * limit, take =
\* limit; the query is rejected when skip is negative, answered 500 by the catch
listActiveNotes(s, page, limit, search) ==
    /\ Dispatch(s)
    /\ LET skip == (page - 1) * limit
           query == [page |-> page, limit |-> limit, search |-> search]
       IN  IF skip < 0
           THEN req' = [req EXCEPT ![s].pc = "done", ![s].op = "listActive",
                                   ![s].input = query, ![s].res = 500,
                                   ![s].body = ErrorBody("Failed to fetch notes")]
           ELSE req' = [req EXCEPT ![s].pc = "found", ![s].op = "listActive",
                                   ![s].input = query,
                                   ![s].body = RowsBody(Slice(ActiveMatching(req[s].user, search),
                                                              skip, limit))]
    /\ UNCHANGED <<users, now, notes0, notes, nextId, recent>>
    /\ Called(s, IF req'[s].res = 500 THEN 2 ELSE 1)

\* GET /api/notes, the count of Promise.all and the response
listActiveCount(s) ==
    /\ req[s].pc = "found" /\ req[s].op = "listActive"
    /\ LET query == req[s].input
           total == Len(ActiveMatching(req[s].user, query.search))
       IN  req' = [req EXCEPT ![s].pc = "done", ![s].res = 200,
                              ![s].body = PageBody(req[s].body.notes, query.page,
                                                   query.limit, total)]
    /\ UNCHANGED <<users, now, notes0, notes, nextId, recent>>
    /\ Called(s, 1)

listArchivedNotes(s) == Dispatch(s) /\ listByStatus(s, "listArchived", "ARCHIVED")
listTrashedNotes(s) == Dispatch(s) /\ listByStatus(s, "listTrash", "TRASH")

\* a groupBy without the where userId
notesStatsAllUsers(s) ==
    /\ Dispatch(s)
    /\ Respond(s, "stats", 0, 200,
               [kind |-> "stats",
                active |-> Cardinality({n \in DOMAIN notes : notes[n].status = "ACTIVE"}),
                archived |-> Cardinality({n \in DOMAIN notes : notes[n].status = "ARCHIVED"}),
                trash |-> Cardinality({n \in DOMAIN notes : notes[n].status = "TRASH"})])
    /\ UNCHANGED <<users, now, notes0, notes, nextId, recent>>
    /\ Called(s, 1)

\* GET /api/notes/stats: groupBy status with counts, absent groups stay 0
notesStats(s) ==
    /\ Dispatch(s)
    /\ Respond(s, "stats", 0, 200,
               [kind |-> "stats",
                active |-> Cardinality(NotesOf(req[s].user, "ACTIVE")),
                archived |-> Cardinality(NotesOf(req[s].user, "ARCHIVED")),
                trash |-> Cardinality(NotesOf(req[s].user, "TRASH"))])
    /\ UNCHANGED <<users, now, notes0, notes, nextId, recent>>
    /\ Called(s, 1)

\* GET /api/auth/me
getMe(s) ==
    /\ Dispatch(s)
    /\ IF req[s].user \in DOMAIN users
       THEN Respond(s, "me", 0, 200, [kind |-> "user", id |-> req[s].user])
       ELSE Respond(s, "me", 0, 404, ErrorBody("User not found"))
    /\ UNCHANGED <<users, now, notes0, notes, nextId, recent>>
    /\ Called(s, 1)

\* GET /api/auth/profile: the user with the count of their active notes
getProfile(s) ==
    /\ Dispatch(s)
    /\ IF req[s].user \in DOMAIN users
       THEN Respond(s, "profile", 0, 200,
                    [kind |-> "profile", id |-> req[s].user,
                     activeNotesCount |-> Cardinality(NotesOf(req[s].user, "ACTIVE"))])
       ELSE Respond(s, "profile", 0, 404, ErrorBody("User not found"))
    /\ UNCHANGED <<users, now, notes0, notes, nextId, recent>>
    /\ Called(s, 1)

\* a logout that removes the account the token belongs to
logoutRevokes(s) ==
    /\ Dispatch(s)
    /\ Respond(s, "logout", 0, 200,
               MessageBody("Logout successful. Please remove the token from client-side storage."))
    /\ users' = [u \in DOMAIN users \ {req[s].user} |-> users[u]]
    /\ UNCHANGED <<now, notes0, notes, nextId, recent>>
    /\ Called(s, 1)

\* POST /api/auth/logout
logout(s) ==
    /\ Dispatch(s)
    /\ Respond(s, "logout", 0, 200,
               MessageBody("Logout successful. Please remove the token from client-side storage."))
    /\ UNCHANGED <<users, now, notes0, notes, nextId, recent>>
    /\ Called(s, 0)

\* ----------------------------------------------------- public auth routes
\* the ids new users get, in the order they are given out (cuid never repeats)
UserIds == <<"u1", "u2", "u3">>
NewUserId == UserIds[Cardinality(DOMAIN users) + 1]

\* findUnique where email: the ids of the stored users with exactly this email
ByEmail(email) == {u \in DOMAIN users : users[u].email = email}

\* res.status(code).json(body) of a route that read its fields from req.body
RespondAuth(s, op, input, code, body) ==
    req' = [req EXCEPT ![s].pc = "done", ![s].op = op, ![s].input = input,
                       ![s].res = code, ![s].body = body]

\* the user and the token a successful register, login or callback answers with
AuthBody(id) == [kind |-> "auth", id |-> id, token |-> generateToken(id)]

\* POST /api/auth/register, up to the existence pre-check (findUnique)
registerFind(s, name, email, password) ==
    /\ req[s].pc = "idle"
    /\ LET input == [name |-> name, email |-> email, password |-> password]
           fail(code, msg) == RespondAuth(s, "register", input, code, ErrorBody(msg))
       IN  IF Falsy(name) \/ Falsy(email) \/ Falsy(password)
           THEN fail(400, "Name, email, and password are required")
           ELSE IF email \notin Emails
           THEN fail(400, "Please provide a valid email address")
           ELSE IF Len(password) < MinPasswordLength
           THEN fail(400, "Password must be at least 6 characters long")
           ELSE IF ByEmail(toLowerCase(email)) # {}
           THEN fail(409, "User already exists with this email")
           ELSE req' = [req EXCEPT ![s].pc = "found", ![s].op = "register",
                                   ![s].input = input]
    /\ UNCHANGED <<users, now, notes0, notes, nextId, recent>>
    /\ Called(s, IF req'[s].res = 400 THEN 0 ELSE 1)

\* a create that the unique index on email does not stop
registerCreateNoIndex(s) ==
    /\ req[s].pc = "found" /\ req[s].op = "register"
    /\ Cardinality(DOMAIN users) < Len(UserIds)
    /\ LET input == req[s].input
           user == [email |-> toLowerCase(input.email),
                    password |-> hashPassword(input.password),
                    googleId |-> NoGoogleId, name |-> input.name]
       IN  /\ users' = (NewUserId :> user) @@ users
           /\ RespondAuth(s, "register", input, 201, AuthBody(NewUserId))
    /\ UNCHANGED <<now, notes0, notes, nextId, recent>>
    /\ Called(s, 1)

\* a create that stores the password as it came
registerCreatePlain(s) ==
    /\ req[s].pc = "found" /\ req[s].op = "register"
    /\ Cardinality(DOMAIN users) < Len(UserIds)
    /\ LET input == req[s].input
           user == [email |-> toLowerCase(input.email),
                    password |-> input.password,
                    googleId |-> NoGoogleId, name |-> input.name]
       IN  IF ByEmail(user.email) # {}
           THEN /\ RespondAuth(s, "register", input, 409,
                               ErrorBody("User already exists with this email"))
                /\ UNCHANGED users
           ELSE /\ users' = (NewUserId :> user) @@ users
                /\ RespondAuth(s, "register", input, 201, AuthBody(NewUserId))
    /\ UNCHANGED <<now, notes0, notes, nextId, recent>>
    /\ Called(s, 1)

\* POST /api/auth/register, the hash and the create; the unique index on email
\* rejects a second row (P2002), which is answered 409
registerCreate(s) ==
    /\ req[s].pc = "found" /\ req[s].op = "register"
    /\ Cardinality(DOMAIN users) < Len(UserIds)
    /\ LET input == req[s].input
           user == [email |-> toLowerCase(input.email),
                    password |-> hashPassword(input.password),
                    googleId |-> NoGoogleId, name |-> input.name]
       IN  IF ByEmail(user.email) # {}
           THEN /\ RespondAuth(s, "register", input, 409,
                               ErrorBody("User already exists with this email"))
                /\ UNCHANGED users
           ELSE /\ users' = (NewUserId :> user) @@ users
                /\ RespondAuth(s, "register", input, 201, AuthBody(NewUserId))
    /\ UNCHANGED <<now, notes0, notes, nextId, recent>>
    /\ Called(s, 1)

\* POST /api/auth/login; bcrypt.compare throws on a hash that is null
login(s, email, password) ==
    /\ req[s].pc = "idle"
    /\ LET input == [email |-> email, password |-> password]
           fail(code, msg) == RespondAuth(s, "login", input, code, ErrorBody(msg))
       IN  IF Falsy(email) \/ Falsy(password)
           THEN fail(400, "Email and password are required")
           ELSE IF ByEmail(toLowerCase(email)) = {}
           THEN fail(401, "Invalid email or password")
           ELSE LET id == CHOOSE u \in ByEmail(toLowerCase(email)) : TRUE IN
                IF users[id].password = Null
                THEN fail(500, "Failed to login")
                ELSE IF ~comparePassword(password, users[id].password)
                THEN fail(401, "Invalid email or password")
                ELSE RespondAuth(s, "login", input, 200, AuthBody(id))
    /\ UNCHANGED <<users, now, notes0, notes, nextId, recent>>
    /\ Called(s, IF req'[s].res = 400 THEN 0 ELSE 1)

\* the profiles the identity provider hands over: emails[0].value, id, displayName
Profiles == [email : Emails, id : GoogleIds, displayName : {SampleName}]

\* GET /api/auth/google/callback: the strategy's lookup by the profile's email;
\* a user found is logged in (redirect with a token)
googleFind(s, profile) ==
    /\ req[s].pc = "idle"
    /\ IF ByEmail(profile.email) # {}
       THEN RespondAuth(s, "google", profile, 302,
                        AuthBody(CHOOSE u \in ByEmail(profile.email) : TRUE))
       ELSE req' = [req EXCEPT ![s].pc = "found", ![s].op = "google",
                               ![s].input = profile]
    /\ UNCHANGED <<users, now, notes0, notes, nextId, recent>>
    /\ Called(s, 1)

\* err.message of the error Prisma throws for a create that a unique index rejects
UniqueConstraintFailed == "Unique constraint failed on the fields"

\* app.use((err, req, res, next) => ...): the body carries err.message, the fixed
\* text only when the error has none
centralErrorHandler(message) ==
    ErrorBody(IF message = "" THEN "Internal server error" ELSE message)

\* a create that leaves the googleId out
googleCreateNoId(s) ==
    /\ req[s].pc = "found" /\ req[s].op = "google"
    /\ Cardinality(DOMAIN users) < Len(UserIds)
    /\ LET profile == req[s].input
           user == [email |-> profile.email, password |-> Null,
                    googleId |-> NoGoogleId, name |-> profile.displayName]
       IN  IF ByEmail(user.email) # {}
           THEN /\ RespondAuth(s, "google", profile, 500,
                               centralErrorHandler(UniqueConstraintFailed))
                /\ UNCHANGED users
           ELSE /\ users' = (NewUserId :> user) @@ users
                /\ RespondAuth(s, "google", profile, 302, AuthBody(NewUserId))
    /\ UNCHANGED <<now, notes0, notes, nextId, recent>>
    /\ Called(s, 1)

\* GET /api/auth/google/callback: the strategy's create; the unique indexes on
\* email and googleId reject a second row, done(err) ends in the error handler
googleCreate(s) ==
    /\ req[s].pc = "found" /\ req[s].op = "google"
    /\ Cardinality(DOMAIN users) < Len(UserIds)
    /\ LET profile == req[s].input
           user == [email |-> profile.email, password |-> Null,
                    googleId |-> profile.id, name |-> profile.displayName]
       IN  IF \/ ByEmail(user.email) # {}
              \/ \E u \in DOMAIN users : users[u].googleId = user.googleId
           THEN /\ RespondAuth(s, "google", profile, 500,
                               centralErrorHandler(UniqueConstraintFailed))
                /\ UNCHANGED users
           ELSE /\ users' = (NewUserId :> user) @@ users
                /\ RespondAuth(s, "google", profile, 302, AuthBody(NewUserId))
    /\ UNCHANGED <<now, notes0, notes, nextId, recent>>
    /\ Called(s, 1)

\* a day passes
Tick ==
    /\ now < MaxTime
    /\ now' = now + 1
    /\ UNCHANGED <<users, notes0, notes, nextId, recent, req, calls>>

\* the client has read the response; the slot serves the next request
Finish(s) ==
    /\ req[s].pc = "done"
    /\ req' = [req EXCEPT ![s] = Idle]
    /\ calls' = [calls EXCEPT ![s] = 0]
    /\ UNCHANGED <<users, now, notes0, notes, nextId, recent>>

\* ---------------------------------------------------------- specification
\* the userId field of a body: absent, or some user's id
OwnerFields == {NoUser, "u1", "u2"}

\* the title and content of a body: each field takes every value while the other
\* is a plain text, and both take every value together
SampleText == <<"a">>
Bodies ==
    {b \in [title : BodyValues, content : BodyValues] :
        b.title = SampleText \/ b.content = SampleText \/ b.title = b.content}

Receive(s) == \E h \in Headers : authenticateToken(s, h)
Get(s) == \E id \in NoteIds : getNote(s, id)
Create(s) == \E b \in Bodies, o \in OwnerFields : createNote(s, b.title, b.content, o)
UpdateFind(s) == \E id \in NoteIds, b \in Bodies : updateNoteFind(s, id, b.title, b.content)
Archive(s) == \E id \in NoteIds : archiveNote(s, id)
Unarchive(s) == \E id \in NoteIds : unarchiveNote(s, id)
Trash(s) == \E id \in NoteIds : trashNote(s, id)
Restore(s) == \E id \in NoteIds : restoreNote(s, id)
DeleteFind(s) == \E id \in NoteIds : deleteNoteFind(s, id)

\* the list without query parameters: page = 1, limit = 20, no search
ListActive(s) == listActiveNotes(s, DefaultPage, DefaultLimit, Missing)

Handle(s) ==
    \/ Receive(s)
    \/ Get(s)
    \/ Create(s)
    \/ UpdateFind(s)
    \/ updateNoteWrite(s)
    \/ Archive(s)
    \/ Unarchive(s)
    \/ Trash(s)
    \/ Restore(s)
    \/ DeleteFind(s)
    \/ deleteNoteRemove(s)
    \/ ListActive(s)
    \/ listActiveCount(s)
    \/ listArchivedNotes(s)
    \/ listTrashedNotes(s)
    \/ notesStats(s)
    \/ getMe(s)
    \/ getProfile(s)
    \/ logout(s)
    \/ Finish(s)

\* requests are handled one at a time
Next == Handle("r1")
Spec == Init /\ [][Next]_vars

\* Two requests in flight at once over a store that holds notes already: every
\* interleaving of their storage calls.  Each slot serves one request.
StoresRace ==
    {(1 :> [userId |-> u, title |-> SampleText, content |-> SampleText, status |-> st])
        : u \in {"u1", "u2"}, st \in {"ACTIVE", "ARCHIVED", "TRASH"}}

InitRace ==
    /\ users = StoredUsers
    /\ now = TokenLifetime
    /\ notes \in StoresRace
    /\ recent = <<1>>
    /\ nextId = 2
    /\ req = [s \in Requests |-> Idle]
    /\ calls = [s \in Requests |-> 0]
    /\ notes0 = notes

Race(s) ==
    \/ Receive(s)
    \/ Archive(s)
    \/ Unarchive(s)
    \/ Trash(s)
    \/ Restore(s)

NextRace == \E s \in Requests : Race(s)
SpecRace == InitRace /\ [][NextRace]_vars

\* Two requests in flight at once that update or delete the stored note: every
\* interleaving of their lookups and writes.  Each slot serves one request.
RaceWrites(s) ==
    \/ Receive(s)
    \/ UpdateFind(s)
    \/ updateNoteWrite(s)
    \/ DeleteFind(s)
    \/ deleteNoteRemove(s)

NextRaceWrites == \E s \in Requests : RaceWrites(s)
SpecRaceWrites == InitRace /\ [][NextRaceWrites]_vars

\* The active list in flight at once with a request that creates, trashes or
\* deletes a note: every interleaving of the list's two queries (findMany, then
\* count) with the other request's storage calls.  Each slot serves one request.
RaceList(s) ==
    \/ Receive(s)
    \/ ListActive(s)
    \/ listActiveCount(s)
    \/ Create(s)
    \/ Trash(s)
    \/ DeleteFind(s)
    \/ deleteNoteRemove(s)

NextRaceList == \E s \in Requests : RaceList(s)
SpecRaceList == InitRace /\ [][NextRaceList]_vars

\* Requests whose storage calls may throw, under the assumption that every
\* storage call returns or throws: a slot with a step to take takes it.
StorageFailure == "Can't reach database server"

\* the guard's user lookup throws an error that is neither JWT error
authenticateTokenThrows(s, h) ==
    /\ req[s].pc = "idle"
    /\ h # NoHeader /\ verifyToken(h).ok
    /\ req' = [req EXCEPT ![s] = [Idle EXCEPT !.pc = "done", !.tok = h,
                                              !.res = 500,
                                              !.body = ErrorBody("Authentication failed.")]]
    /\ UNCHANGED <<users, now, notes0, notes, nextId, recent>>
    /\ Called(s, 1)

\* updateMany throws: catch (err) { next(err); } reaches the central handler
transitionStatusThrows(s, op, id) ==
    /\ Dispatch(s)
    /\ Respond(s, op, id, 500, centralErrorHandler(StorageFailure))
    /\ UNCHANGED <<users, now, notes0, notes, nextId, recent>>
    /\ Called(s, 1)

ReceiveThrows(s) == \E h \in Headers : authenticateTokenThrows(s, h)
TransitionThrows(s) ==
    \E op \in TransitionOps, id \in NoteIds : transitionStatusThrows(s, op, id)

\* the bodies of the updates: a valid one, one without a title, one whose title
\* is not a string
BodiesLive ==
    {b \in Bodies : b.content = SampleText /\ b.title \in {SampleText, Missing, NotAString}}
UpdateFindLive(s) ==
    \E id \in NoteIds, b \in BodiesLive : updateNoteFind(s, id, b.title, b.content)

Live(s) ==
    \/ Receive(s)
    \/ ReceiveThrows(s)
    \/ UpdateFindLive(s)
    \/ updateNoteWrite(s)
    \/ Archive(s)
    \/ Trash(s)
    \/ TransitionThrows(s)
    \/ DeleteFind(s)
    \/ deleteNoteRemove(s)

NextLive == \E s \in Requests : Live(s)
SpecLive == InitRace /\ [][NextLive]_vars /\ \A s \in Requests : WF_vars(Live(s))

\* The public auth routes, one request at a time, over a user table that starts
\* empty.
Register(s) ==
    \E n \in NameValues, e \in EmailValues, p \in PasswordValues : registerFind(s, n, e, p)
Login(s) == \E e \in EmailValues, p \in PasswordValues : login(s, e, p)
GoogleFind(s) == \E profile \in Profiles : googleFind(s, profile)

HandleAuth(s) ==
    \/ Register(s)
    \/ registerCreate(s)
    \/ Login(s)
    \/ GoogleFind(s)
    \/ googleCreate(s)
    \/ Finish(s)

InitAuth ==
    /\ users = <<>>
    /\ now = 0
    /\ notes = <<>>
    /\ recent = <<>>
    /\ nextId = 1
    /\ req = [s \in Requests |-> Idle]
    /\ calls = [s \in Requests |-> 0]
    /\ notes0 = notes

NextAuth == HandleAuth("r1")
SpecAuth == InitAuth /\ [][NextAuth]_vars

\* Two registrations in flight at once over an empty user table: every
\* interleaving of their storage calls, one after the other included.
InitAuthRace ==
    /\ users = <<>>
    /\ now = 0
    /\ notes = <<>>
    /\ recent = <<>>
    /\ nextId = 1
    /\ req = [s \in Requests |-> Idle]
    /\ calls = [s \in Requests |-> 0]
    /\ notes0 = notes

NextAuthRace == \E s \in Requests : Register(s) \/ registerCreate(s)
SpecAuthRace == InitAuthRace /\ [][NextAuthRace]_vars

\* The guard while the clock runs: logins issue tokens, requests carry any token
\* issued so far.
ReceiveIssued(s) == \E h \in HeadersIssued : authenticateToken(s, h)

InitToken ==
    /\ users = StoredUsers
    /\ now = 0
    /\ notes = <<>>
    /\ recent = <<>>
    /\ nextId = 1
    /\ req = [s \in Requests |-> Idle]
    /\ calls = [s \in Requests |-> 0]
    /\ notes0 = notes

NextToken ==
    \/ Tick
    \/ Login("r1")
    \/ ReceiveIssued("r1")
    \/ getMe("r1")
    \/ Finish("r1")

SpecToken == InitToken /\ [][NextToken]_vars

\* The active list queried with every page, page size and search term over
\* stores that hold MaxListed notes in every order of their last update.
ListIds == 1..MaxListed
ListTexts == {[title |-> <<"a">>, content |-> <<"b">>], [title |-> <<"b">>, content |-> <<"b">>]}
StoresList ==
    [ListIds -> {[userId |-> u, title |-> t.title, content |-> t.content, status |-> st]
                    : u \in {"u1", "u2"}, t \in ListTexts, st \in {"ACTIVE", "TRASH"}}]
Orders == {o \in [ListIds -> ListIds] : \A i, j \in ListIds : o[i] = o[j] => i = j}
ListPages == (0 - 1)..MaxListed
ListLimits == 1..2
Searches == {Missing, <<"A">>, <<"b">>}

QueryActive(s) ==
    \E page \in ListPages, limit \in ListLimits, search \in Searches :
        listActiveNotes(s, page, limit, search)

InitList ==
    /\ users = StoredUsers
    /\ now = TokenLifetime
    /\ notes \in StoresList
    /\ recent \in Orders
    /\ nextId = MaxListed + 1
    /\ req = [s \in Requests |-> Idle]
    /\ calls = [s \in Requests |-> 0]
    /\ notes0 = notes

NextList ==
    \/ Receive("r1")
    \/ QueryActive("r1")
    \/ listActiveCount("r1")
    \/ Finish("r1")

SpecList == InitList /\ [][NextList]_vars

\* The four routes that validate a body, one request at a time: register and
\* login next to create and update, over one stored user.
InitValidate ==
    /\ users = [u \in {"u1"} |-> StoredUsers[u]]
    /\ now = TokenLifetime
    /\ notes = <<>>
    /\ recent = <<>>
    /\ nextId = 1
    /\ req = [s \in Requests |-> Idle]
    /\ calls = [s \in Requests |-> 0]
    /\ notes0 = notes

NextValidate ==
    \/ Receive("r1")
    \/ Create("r1")
    \/ UpdateFind("r1")
    \/ updateNoteWrite("r1")
    \/ Register("r1")
    \/ registerCreate("r1")
    \/ Login("r1")
    \/ Finish("r1")

SpecValidate == InitValidate /\ [][NextValidate]_vars

\* The guard run for two requests while the clock runs, over a user table that
\* no request changes.
RaceGuard(s) ==
    \/ ReceiveIssued(s)
    \/ getMe(s)
    \/ logout(s)
    \/ Finish(s)

NextGuard ==
    \/ Tick
    \/ \E s \in Requests : RaceGuard(s)

SpecGuard == InitToken /\ [][NextGuard]_vars

\* -------------------------------------------------------------- properties
\* the transition table of the note lifecycle
Source(op) ==
    CASE op = "archive" -> {"ACTIVE"}
      [] op = "unarchive" -> {"ARCHIVED"}
      [] op = "trash" -> {"ACTIVE", "ARCHIVED"}
      [] op = "restore" -> {"TRASH"}

Target(op) ==
    CASE op = "archive" -> "ARCHIVED"
      [] op = "unarchive" -> "ACTIVE"
      [] op = "trash" -> "TRASH"
      [] op = "restore" -> "ACTIVE"

\* this step is the storage call of slot s's handler for `op` on note `id`
\* that answers the request
Answers(s, op, id) ==
    /\ req[s].pc \in {"handler", "found"}
    /\ req'[s].pc = "done" /\ req'[s].op = op /\ req'[s].id = id

\* the note `id` is stored, owned by u, with a status `op` may start from
Matches(id, u, op) == Owned(id, u) /\ notes[id].status \in Source(op)

\* C1: the status of a stored note changes only by a successful archive, unarchive,
\* trash or restore of its owner, from a status in that operation's source set to the
\* operation's target; and a transition call succeeds exactly when the addressed
\* note is owned by the requester with a status in the source set, and then the
\* stored status is the target.
C1_LifecycleEdges ==
    [][ /\ \A n \in DOMAIN notes \cap DOMAIN notes' :
              notes'[n].status # notes[n].status =>
                  \E s \in Requests, op \in TransitionOps :
                      /\ Answers(s, op, n) /\ req'[s].res = 200
                      /\ req[s].user = notes[n].userId
                      /\ notes[n].status \in Source(op)
                      /\ notes'[n].status = Target(op)
        /\ \A s \in Requests, op \in TransitionOps, n \in NoteIds :
              Answers(s, op, n) =>
                  /\ req'[s].res = 200 <=> Matches(n, req[s].user, op)
                  /\ req'[s].res = 200 => n \in DOMAIN notes' /\ notes'[n].status = Target(op)
      ]_vars

\* a restore has succeeded on a note that was trashed: it is Active again
C1_Witness ==
    \E s \in Requests :
        /\ req[s].pc = "done" /\ req[s].op = "restore" /\ req[s].res = 200
        /\ req[s].id \in DOMAIN notes /\ notes[req[s].id].status = "ACTIVE"
        /\ notes[req[s].id].userId = req[s].user

\* C2: two concurrent calls of the same transition by the owner on the same note,
\* whose status when both start is in the transition's source set: in every
\* interleaving exactly one call reports 200 and the other 404, and the stored
\* status at the end is the transition's target.
C2_RaceOneWinner ==
    \A op \in TransitionOps, n \in NoteIds :
        ( /\ \A s \in Requests :
                req[s].pc = "done" /\ req[s].op = op /\ req[s].id = n
          /\ n \in DOMAIN notes0
          /\ \A s \in Requests : req[s].user = notes0[n].userId
          /\ notes0[n].status \in Source(op) )
        => /\ \E s \in Requests :
                 /\ req[s].res = 200
                 /\ \A r \in Requests \ {s} : req[r].res = 404
           /\ n \in DOMAIN notes /\ notes[n].status = Target(op)

\* two archive calls of the owner on an Active note have both been answered
C2_Witness ==
    /\ notes0[1].status = "ACTIVE"
    /\ \A s \in Requests :
          /\ req[s].pc = "done" /\ req[s].op = "archive" /\ req[s].id = 1
          /\ req[s].user = notes0[1].userId
    /\ req["r1"].res = 404 /\ req["r2"].res = 200
    /\ notes[1].status = "ARCHIVED"

\* the operations that address one note by its id
ByIdOps == {"get", "update", "delete"} \cup TransitionOps

\* this step is the first storage call (or the validation before it) of slot s's
\* handler for `op` on note `id`
Starts(s, op, id) ==
    /\ req[s].pc = "handler"
    /\ req'[s].pc \in {"found", "done"} /\ req'[s].op = op /\ req'[s].id = id

\* note n is stored and owned by somebody other than u
Foreign(n, u) == n \in DOMAIN notes /\ notes[n].userId # u

\* what a list or stats response shows is made of the requester's notes only
OwnNotesOnly(s) ==
    /\ req'[s].body.kind = "list" =>
          \A i \in DOMAIN req'[s].body.notes :
              LET n == req'[s].body.notes[i]
              IN  n \in DOMAIN notes /\ notes[n].userId = req[s].user
    /\ req'[s].body.kind = "stats" =>
          /\ req'[s].body.active = Cardinality({n \in DOMAIN notes :
                 notes[n].userId = req[s].user /\ notes[n].status = "ACTIVE"})
          /\ req'[s].body.archived = Cardinality({n \in DOMAIN notes :
                 notes[n].userId = req[s].user /\ notes[n].status = "ARCHIVED"})
          /\ req'[s].body.trash = Cardinality({n \in DOMAIN notes :
                 notes[n].userId = req[s].user /\ notes[n].status = "TRASH"})

\* a body field that is a string with something left after trimming
Text(v) == v \in Strings /\ Trim(v) # <<>>

\* a body field that is missing or the empty string
Absent(v) == v = Missing \/ v = <<>>

\* a body field that is a non-empty string
Given(v) == v \in Strings /\ v # <<>>

\* the stored note n is the same in both states of the step
Kept(n) == n \in DOMAIN notes' /\ notes'[n] = notes[n]

C4_NoMatchNotFound ==
    [][ \A s \in Requests, op \in TransitionOps, n \in NoteIds :
          Answers(s, op, n) /\ ~Matches(n, req[s].user, op) =>
              /\ req'[s].res = 404 /\ req'[s].body.kind = "error"
              /\ notes' = notes
      ]_vars

\* an unarchive of the owner on a note in the trash has been answered 404
C4_Witness ==
    \E s \in Requests :
        /\ req[s].pc = "done" /\ req[s].op = "unarchive" /\ req[s].res = 404
        /\ Owned(req[s].id, req[s].user) /\ notes[req[s].id].status = "TRASH"

\* slot s is inside a protected handler, or was answered by one
InHandler(s) ==
    \/ req[s].pc \in {"handler", "found"}
    \/ req[s].pc = "done" /\ req[s].op # "none"

\* C5: a protected handler runs for a request only after the guard has passed that
\* request, and the identity bound to the request is the stored user whose id the
\* verified, unexpired token carries: never unset, never another user's.
C5_GuardBeforeHandler ==
    \A s \in Requests :
        InHandler(s) =>
            /\ req[s].tok.kind = "jwt" /\ now < req[s].tok.iat + TokenLifetime
            /\ req[s].user = req[s].tok.id
            /\ req[s].user \in DOMAIN users /\ req[s].user # NoUser

\* a create has been answered for the user of the token the request carried
C5_Witness ==
    \E s \in Requests :
        /\ req[s].pc = "done" /\ req[s].op = "create" /\ req[s].res = 201
        /\ req[s].tok.kind = "jwt" /\ req[s].tok.id = "u2" /\ req[s].user = "u2"
        /\ notes[req[s].body.id].userId = "u2"

\* what the guard answers for header h, "" when it lets the request pass
Rejection(h) ==
    IF h = NoHeader THEN "Access denied. No token provided."
    ELSE IF h = Malformed THEN "Invalid token format."
    ELSE IF now >= h.iat + TokenLifetime THEN "Token expired. Please login again."
    ELSE IF h.id \notin DOMAIN users THEN "Invalid token. User not found."
    ELSE ""

\* C6: a request with no bearer token, with an expired token, with a token of
\* invalid signature or structure, or with a valid token whose user is not stored,
\* is answered 401 with the message of its case, and no protected handler runs
\* for it.
C6_Unauthenticated ==
    \A s \in Requests :
        req[s].pc # "idle" /\ Rejection(req[s].tok) # "" =>
            /\ req[s].pc = "done" /\ req[s].res = 401 /\ req[s].op = "none"
            /\ req[s].user = NoUser
            /\ req[s].body = [kind |-> "error", error |-> Rejection(req[s].tok)]

\* a request with an expired token of a stored user has been answered 401
C6_Witness ==
    \E s \in Requests :
        /\ req[s].pc = "done" /\ req[s].res = 401
        /\ req[s].tok.kind = "jwt" /\ now >= req[s].tok.iat + TokenLifetime
        /\ req[s].tok.id \in DOMAIN users

\* C7: every stored note has one owner, a stored user; a note comes into being only
\* by a successful create, under an id never used before, owned by the authenticated
\* requester of that create whatever the body says; and no step of any operation
\* changes the owner of a stored note.
C7_OwnerFixed ==
    [][ /\ \A n \in DOMAIN notes \cap DOMAIN notes' : notes'[n].userId = notes[n].userId
        /\ \A n \in DOMAIN notes' \ DOMAIN notes :
              /\ n = nextId /\ nextId' = nextId + 1
              /\ \E s \in Requests :
                    /\ Answers(s, "create", 0) /\ req'[s].res = 201
                    /\ notes'[n].userId = req[s].user
                    /\ req[s].user \in DOMAIN users
        /\ nextId' >= nextId /\ \A n \in DOMAIN notes' : n < nextId'
      ]_vars

\* both users have created a note, each note is owned by its creator
C7_Witness ==
    /\ 1 \in DOMAIN notes /\ 2 \in DOMAIN notes
    /\ notes[1].userId = "u1" /\ notes[2].userId = "u2"
    /\ \E s \in Requests :
          /\ req[s].pc = "done" /\ req[s].op = "create" /\ req[s].res = 201
          /\ req[s].user = "u2" /\ req[s].body.id = 2

\* C8 (as the spec words it): every stored note has a title and a content that are
\* non-empty after trimming whitespace.
C8_NonEmptyText ==
    \A n \in DOMAIN notes :
        Trim(notes[n].title) # <<>> /\ Trim(notes[n].content) # <<>>

\* C9: a create whose title and content are non-empty after trimming stores one new
\* note with the trimmed title and content, the requester as owner and status
\* Active, and stores nothing else; a get of a note by its owner returns the note
\* as stored; and a stored note stays as it is in every step that is not an update,
\* a transition or a delete of that note.
C9_CreateGetRoundTrip ==
    [][ \A s \in Requests :
          /\ Answers(s, "create", 0) /\ Text(req'[s].input.title)
                                     /\ Text(req'[s].input.content) =>
                /\ req'[s].res = 201
                /\ DOMAIN notes' = DOMAIN notes \cup {nextId}
                /\ nextId \notin DOMAIN notes
                /\ notes'[nextId] = [userId |-> req[s].user,
                                     title |-> Trim(req'[s].input.title),
                                     content |-> Trim(req'[s].input.content),
                                     status |-> "ACTIVE"]
                /\ req'[s].body = [kind |-> "note", id |-> nextId,
                                   note |-> notes'[nextId]]
                /\ \A n \in DOMAIN notes : Kept(n)
          /\ \A n \in NoteIds :
                Starts(s, "get", n) /\ Owned(n, req[s].user) =>
                    /\ req'[s].pc = "done" /\ req'[s].res = 200
                    /\ req'[s].body = [kind |-> "note", id |-> n, note |-> notes[n]]
          /\ \A n \in DOMAIN notes :
                Kept(n) \/ \E r \in Requests :
                    /\ req'[r].pc = "done" /\ req'[r].id = n
                    /\ req'[r].op \in {"update", "delete"} \cup TransitionOps
      ]_vars

\* a create with a blank before its title and before its content has stored both
\* without the blank
C9_Witness ==
    \E s \in Requests :
        /\ req[s].pc = "done" /\ req[s].op = "create" /\ req[s].res = 201
        /\ req[s].input.title = <<" ", "a">> /\ req[s].input.content = <<" ", "a">>
        /\ notes[req[s].body.id] = [userId |-> req[s].user, title |-> <<"a">>,
                                    content |-> <<"a">>, status |-> "ACTIVE"]

\* C10 (as the spec words it): an update on a note owned by the requester replaces
\* title and content by the trimmed inputs and changes nothing else; an update on an
\* id the requester owns no note under is answered 404 and changes nothing.
C10_UpdateAlways ==
    [][ \A s \in Requests, n \in NoteIds :
          /\ Starts(s, "update", n) =>
                /\ notes' = notes
                /\ IF Owned(n, req[s].user)
                   THEN req'[s].pc = "found"
                   ELSE req'[s].pc = "done" /\ req'[s].res = 404
          /\ req[s].pc = "found" /\ Answers(s, "update", n) =>
                /\ req'[s].res = 200
                /\ notes' = [notes EXCEPT ![n].title = Trim(req[s].input.title),
                                          ![n].content = Trim(req[s].input.content)]
      ]_vars

\* C10: an update with title and content both non-empty strings on a note owned by
\* the requester replaces the note's title and content by the trimmed inputs and
\* leaves its status, its owner and every other note unchanged, whatever the note's
\* status; with such a title and content on an id the requester owns no note under
\* it is answered 404 and changes nothing.
C10_UpdateFrame ==
    [][ \A s \in Requests, n \in NoteIds :
          /\ Starts(s, "update", n) =>
                /\ notes' = notes
                /\ Given(req'[s].input.title) /\ Given(req'[s].input.content) =>
                      IF Owned(n, req[s].user)
                      THEN req'[s].pc = "found"
                      ELSE req'[s].pc = "done" /\ req'[s].res = 404
          /\ ( /\ req[s].pc = "found" /\ Answers(s, "update", n)
               /\ Given(req[s].input.title) /\ Given(req[s].input.content)
               /\ Owned(n, req[s].user) ) =>
                /\ req'[s].res = 200
                /\ DOMAIN notes' = DOMAIN notes
                /\ notes'[n].title = Trim(req[s].input.title)
                /\ notes'[n].content = Trim(req[s].input.content)
                /\ notes'[n].status = notes[n].status
                /\ notes'[n].userId = notes[n].userId
                /\ \A m \in DOMAIN notes \ {n} : Kept(m)
                /\ req'[s].body = [kind |-> "note", id |-> n, note |-> notes'[n]]
      ]_vars

\* an update of an archived note has been answered 200: the note has the new title
\* and is still archived, and another note is stored
C10_Witness ==
    \E s \in Requests :
        /\ req[s].pc = "done" /\ req[s].op = "update" /\ req[s].res = 200
        /\ Owned(req[s].id, req[s].user)
        /\ notes[req[s].id].status = "ARCHIVED"
        /\ req[s].input.title = <<"a", " ">> /\ req[s].input.content = <<"a", " ">>
        /\ notes[req[s].id].title = <<"a">> /\ notes[req[s].id].content = <<"a">>
        /\ req[s].body.note = notes[req[s].id]
        /\ Cardinality(DOMAIN notes) = 2

\* note id n was given out and its note is stored no more
Deleted(n) == n < nextId /\ n \notin DOMAIN notes

SameEmail(s, t) ==
    /\ req[s].input.email \in Emails /\ req[t].input.email \in Emails
    /\ toLowerCase(req[s].input.email) = toLowerCase(req[t].input.email)

Registered(s) ==
    /\ req[s].pc = "done" /\ req[s].op = "register"
    /\ req[s].res \in {201, 409}

C12_RegisterOnce ==
    /\ \A e \in Emails : Cardinality(ByEmail(toLowerCase(e))) <= 1
    /\ \A s, t \in Requests :
          (s # t /\ Registered(s) /\ Registered(t) /\ SameEmail(s, t)) =>
              /\ {req[s].res, req[t].res} = {201, 409}
              /\ Cardinality(ByEmail(toLowerCase(req[s].input.email))) = 1
              /\ \A r \in {s, t} :
                    req[r].res = 409 =>
                        req[r].body = ErrorBody("User already exists with this email")

\* both passed the pre-check before either created: the index decided
C12_Witness ==
    /\ Registered("r1") /\ Registered("r2")
    /\ req["r1"].input.email = <<"a">> /\ req["r2"].input.email = <<"A">>
    /\ req["r1"].res = 409 /\ req["r2"].res = 201
    /\ users["u1"].email = <<"a">>

\* C13: every password login that fails for an unknown email, a wrong password
\* or a stored user without a password hash is answered 401 with the one
\* message "Invalid email or password".
LoginAnswered(s) ==
    /\ req[s].pc = "done" /\ req[s].op = "login"
    /\ ~Falsy(req[s].input.email) /\ ~Falsy(req[s].input.password)

C13_LoginFailsAlike ==
    \A s \in Requests :
        (LoginAnswered(s) /\ req[s].res # 200) =>
            /\ req[s].res = 401
            /\ req[s].body = ErrorBody("Invalid email or password")

\* C14: a registration stores a hash that differs from the password; a login
\* with any case variant of a registered email succeeds with a token for that
\* user's id exactly when the password is the registered one, and is answered
\* 401 otherwise.
PasswordUsers == {u \in DOMAIN users : users[u].password # Null}

RegisterStoresHash(s) ==
    (req[s].pc # "done" /\ req'[s].pc = "done" /\ req'[s].op = "register"
        /\ req'[s].res = 201) =>
        LET id == req'[s].body.id IN
        /\ id \notin DOMAIN users /\ id \in DOMAIN users'
        /\ users'[id].email = toLowerCase(req'[s].input.email)
        /\ users'[id].password # req'[s].input.password
        /\ comparePassword(req'[s].input.password, users'[id].password)
        /\ req'[s].body.token = generateToken(id)

LoginChecksHash(s) ==
    (req[s].pc = "idle" /\ req'[s].pc = "done" /\ req'[s].op = "login") =>
        \A u \in PasswordUsers :
            (~Falsy(req'[s].input.password)
                /\ toLowerCase(req'[s].input.email) = users[u].email) =>
                IF users[u].password = hashPassword(req'[s].input.password)
                THEN /\ req'[s].res = 200
                     /\ req'[s].body = [kind |-> "auth", id |-> u,
                                          token |-> [kind |-> "jwt", id |-> u, iat |-> now]]
                ELSE /\ req'[s].res = 401
                     /\ req'[s].body = ErrorBody("Invalid email or password")

C14_RegisterThenLogin ==
    [][\A s \in Requests : RegisterStoresHash(s) /\ LoginChecksHash(s)]_vars

\* a login with the upper-case variant of the registered email was let in
C14_Witness ==
    /\ req["r1"].pc = "done" /\ req["r1"].op = "login" /\ req["r1"].res = 200
    /\ req["r1"].input.email = <<"A">>
    /\ users[req["r1"].body.id].email = <<"a">>
    /\ users[req["r1"].body.id].password # req["r1"].input.password

\* C15: a token issued by a login verifies to the id of the user it was issued
\* for; the guard lets it through as that user while fewer than TokenLifetime
\* days have passed since its issue, answers 401 "Token expired" from then on,
\* and never takes it for the credential of another user.
LoginIssuesToken(s) ==
    (req[s].pc = "idle" /\ req'[s].op = "login" /\ req'[s].res = 200) =>
        LET token == req'[s].body.token IN
        /\ token.iat = now
        /\ users[token.id].email = toLowerCase(req'[s].input.email)
        /\ verifyToken(token) = [ok |-> TRUE, id |-> req'[s].body.id]

GuardHonoursLifetime(s) ==
    (req[s].pc = "idle" /\ req'[s].tok.kind = "jwt") =>
        LET token == req'[s].tok IN
        /\ (now < token.iat + TokenLifetime /\ token.id \in DOMAIN users) =>
               (req'[s].pc = "handler" /\ req'[s].user = token.id)
        /\ now >= token.iat + TokenLifetime =>
               /\ req'[s].pc = "done" /\ req'[s].res = 401
               /\ req'[s].body = ErrorBody("Token expired. Please login again.")
               /\ req'[s].user = NoUser
        /\ req'[s].user \in {NoUser, token.id}

C15_TokenLifetime ==
    [][\A s \in Requests : LoginIssuesToken(s) /\ GuardHonoursLifetime(s)]_vars

\* a token of a stored user, presented on the day it expires, was rejected
C15_Witness ==
    /\ req["r1"].pc = "done" /\ req["r1"].res = 401
    /\ req["r1"].tok.kind = "jwt" /\ req["r1"].tok.id = "u1"
    /\ req["r1"].tok.iat = 1 /\ now = 1 + TokenLifetime
    /\ req["r1"].body = ErrorBody("Token expired. Please login again.")

\* C16: every stored user has a password hash or an external-identity id.
C16_HasAuthMethod ==
    \A u \in DOMAIN users : users[u].password # Null \/ users[u].googleId # NoGoogleId

\* one user of each kind is stored
C16_Witness ==
    /\ \E u \in DOMAIN users : users[u].password # Null /\ users[u].googleId = NoGoogleId
    /\ \E u \in DOMAIN users : users[u].password = Null /\ users[u].googleId # NoGoogleId

\* C17: every stored email is lower-cased, and no two stored users have emails
\* equal ignoring case.
C17_EmailsNormalized ==
    /\ \A u \in DOMAIN users : users[u].email = toLowerCase(users[u].email)
    /\ \A u, v \in DOMAIN users :
          toLowerCase(users[u].email) = toLowerCase(users[v].email) => u = v

\* C18: resolving a profile whose email a stored user has answers with that
\* user and creates none; resolving any other profile creates exactly one user
\* with the profile's email, display name and external id and no password, and
\* answers with it.
ResolveReturnsStored(s) ==
    (req[s].pc = "idle" /\ req'[s].op = "google") =>
        LET profile == req'[s].input IN
        IF \E u \in DOMAIN users : users[u].email = profile.email
        THEN /\ req'[s].pc = "done" /\ req'[s].res = 302
             /\ req'[s].body.id \in DOMAIN users
             /\ users[req'[s].body.id].email = profile.email
             /\ users' = users
        ELSE /\ req'[s].pc = "found"
             /\ users' = users

ResolveCreatesOne(s) ==
    (req[s].pc = "found" /\ req[s].op = "google" /\ req'[s].pc = "done") =>
        LET profile == req[s].input
            id == req'[s].body.id
        IN  /\ req'[s].res = 302
            /\ DOMAIN users' = DOMAIN users \cup {id} /\ id \notin DOMAIN users
            /\ \A u \in DOMAIN users : users'[u] = users[u]
            /\ users'[id] = [email |-> profile.email, password |-> Null,
                             googleId |-> profile.id, name |-> profile.displayName]

C18_ResolveExternalIdentity ==
    [][\A s \in Requests : ResolveReturnsStored(s) /\ ResolveCreatesOne(s)]_vars

\* C19: the active list with page >= 1 and page size >= 1 answers with the
\* requester's Active notes that match the search term, latest update first,
\* from position (page - 1) * pageSize up to page * pageSize, and with the
\* number of all such notes as total whatever the page.
Position(n) == CHOOSE i \in DOMAIN recent : recent[i] = n

\* the requester's Active notes that match the search term
Listable(u, search) ==
    {n \in DOMAIN notes : /\ notes[n].userId = u /\ notes[n].status = "ACTIVE"
                          /\ MatchesSearch(n, search)}

\* how many listable notes were updated after note n
Newer(n, u, search) == Cardinality({m \in Listable(u, search) : Position(m) < Position(n)})

ListAnswered(s) == req[s].pc = "done" /\ req[s].op = "listActive"

PageOf(s, page) ==
    LET u == req[s].user
        query == req[s].input
        rows == req[s].body.notes
        all == Listable(u, query.search)
        first == (page - 1) * query.limit
        left == Cardinality(all) - first
    IN  /\ req[s].res = 200
        /\ req[s].body.total = Cardinality(all)
        /\ Len(rows) = IF left < 0 THEN 0 ELSE IF left < query.limit THEN left ELSE query.limit
        /\ \A i \in DOMAIN rows :
              rows[i] \in all /\ Newer(rows[i], u, query.search) = first + i - 1

C19_ActivePage ==
    \A s \in Requests :
        (ListAnswered(s) /\ req[s].input.page >= 1 /\ req[s].input.limit >= 1) =>
            PageOf(s, req[s].input.page)

\* page 2 with page size 1 over three active notes, the latest update on note 3
\* and the one before on note 1: note 1 and total 3
C19_Witness ==
    /\ ListAnswered("r1") /\ req["r1"].user = "u1"
    /\ req["r1"].input = [page |-> 2, limit |-> 1, search |-> Missing]
    /\ recent = <<3, 1, 2>>
    /\ \A n \in DOMAIN notes : notes[n].userId = "u1" /\ notes[n].status = "ACTIVE"
    /\ req["r1"].body.notes = <<1>> /\ req["r1"].body.total = 3

\* C20: the active list with page < 1 answers as page 1 does: 200 with the
\* first pageSize matching notes and the same total.
C20_PageBelowOne ==
    \A s \in Requests :
        (ListAnswered(s) /\ req[s].input.page < 1 /\ req[s].input.limit >= 1) =>
            PageOf(s, 1)

\* C21: a stats response carries the three counters active, archived and trash,
\* each the number of notes the requester owns in that status, so that they add
\* up to the number of notes the requester owns.
OwnedBy(u) == {n \in DOMAIN notes : notes[n].userId = u}
OwnedIn(u, st) == {n \in OwnedBy(u) : notes[n].status = st}

C21_StatsCounters ==
    [][\A s \in Requests :
          (req[s].pc = "handler" /\ req'[s].pc = "done" /\ req'[s].op = "stats") =>
              LET stats == req'[s].body IN
              /\ req'[s].res = 200
              /\ DOMAIN stats = {"kind", "active", "archived", "trash"}
              /\ stats.active = Cardinality(OwnedIn(req[s].user, "ACTIVE"))
              /\ stats.archived = Cardinality(OwnedIn(req[s].user, "ARCHIVED"))
              /\ stats.trash = Cardinality(OwnedIn(req[s].user, "TRASH"))
              /\ stats.active + stats.archived + stats.trash
                    = Cardinality(OwnedBy(req[s].user))
              /\ notes' = notes
      ]_vars

\* the requester has one trashed note, another user has an active one
C21_Witness ==
    /\ req["r1"].pc = "done" /\ req["r1"].op = "stats"
    /\ req["r1"].body = [kind |-> "stats", active |-> 0, archived |-> 0, trash |-> 1]
    /\ \E n \in DOMAIN notes : notes[n].userId # req["r1"].user /\ notes[n].status = "ACTIVE"

\* C22: every 500 response carries one of the fixed generic messages and never
\* the message of the error that was raised.
GenericMessages ==
    {"Failed to fetch notes", "Failed to create note", "Failed to update note",
     "Failed to delete note", "Failed to create user", "Failed to login",
     "Internal server error"}

C22_GenericInternal ==
    \A s \in Requests :
        (req[s].pc = "done" /\ req[s].res = 500) =>
            /\ req[s].body.kind = "error"
            /\ req[s].body.error \in GenericMessages

\* C23 as stated: a 400 of register, login, create or update is issued before
\* any storage call was made for the request, and changes no stored user or note.
ValidatingOps == {"register", "login", "create", "update"}

Rejects400(s) ==
    /\ req[s].pc # "done" /\ req'[s].pc = "done"
    /\ req'[s].op \in ValidatingOps /\ req'[s].res = 400

BoundIdentity(u) == [id |-> u, email |-> users[u].email, name |-> users[u].name]

GuardRuns(s) == req[s].pc = "idle" /\ req'[s].pc # "idle" /\ req'[s].op = "none"
GuardRan(t) == req[t].pc \in {"handler", "done"} /\ req[t].op = "none"
Outcome(r) == [pc |-> r.pc, res |-> r.res, body |-> r.body, user |-> r.user]
Expired(r) == r.body = ErrorBody("Token expired. Please login again.")

GuardFrame(s) ==
    /\ users' = users /\ notes' = notes /\ recent' = recent /\ nextId' = nextId
    /\ req'[s].pc = "handler" =>
          /\ req'[s].user \in DOMAIN users
          /\ req'[s].tok.kind = "jwt" /\ req'[s].user = req'[s].tok.id
          /\ DOMAIN BoundIdentity(req'[s].user) = {"id", "email", "name"}

LoggedOut(t) == req[t].pc = "done" /\ req[t].op = "logout" /\ req[t].res = 200

LogoutStateless(s) ==
    (req[s].pc = "handler" /\ req'[s].op = "logout") =>
        /\ req'[s].pc = "done" /\ req'[s].res = 200
        /\ users' = users /\ notes' = notes /\ recent' = recent
        /\ calls'[s] = calls[s]

TokenSurvivesLogout(s) ==
    \A t \in Requests \ {s} :
        (GuardRuns(s) /\ LoggedOut(t) /\ req'[s].tok = req[t].tok
            /\ now < req[t].tok.iat + TokenLifetime) =>
            (req'[s].pc = "handler" /\ req'[s].user = req[t].user)

C25_LogoutStateless ==
    [][\A s \in Requests : LogoutStateless(s) /\ TokenSurvivesLogout(s)]_vars

\* a request carrying the token of a logged-out request has reached its handler
C25_Witness ==
    /\ LoggedOut("r1") /\ req["r1"].tok.iat = 0
    /\ req["r2"].tok = req["r1"].tok
    /\ req["r2"].pc = "done" /\ req["r2"].op = "me" /\ req["r2"].res = 200
    /\ now = TokenLifetime - 1

\* C26: two concurrent deletes by the owner of the same stored note: in every
\* interleaving one is answered 200 and the other 404, never 500.
BothDone(op1, op2, n) ==
    /\ req["r1"].pc = "done" /\ req["r1"].op = op1 /\ req["r1"].id = n
    /\ req["r2"].pc = "done" /\ req["r2"].op = op2 /\ req["r2"].id = n
    /\ n \in DOMAIN notes0
    /\ \A s \in Requests : req[s].user = notes0[n].userId

C26_DeleteRace ==
    \A n \in NoteIds :
        BothDone("delete", "delete", n) =>
            /\ {req["r1"].res, req["r2"].res} = {200, 404}
            /\ n \notin DOMAIN notes

\* C27: an update and a delete of the same owned note in flight at once: in
\* every interleaving the delete is answered 200 and the note is not stored when
\* both are answered; an update that found the note before it was removed is
\* answered 500 and stores nothing.
UpdateAndDelete(n) == BothDone("update", "delete", n) \/ BothDone("delete", "update", n)

C27_UpdateDeleteRace ==
    \A n \in NoteIds :
        UpdateAndDelete(n) =>
            /\ n \notin DOMAIN notes
            /\ \A m \in 1..Len(recent) : recent[m] # n
            /\ \A s \in Requests : req[s].op = "delete" => req[s].res = 200
            /\ DOMAIN notes \subseteq DOMAIN notes0

\* the update found the note, the delete removed it, the update's write failed
C27_Witness ==
    /\ BothDone("update", "delete", 1)
    /\ req["r1"].res = 500 /\ req["r2"].res = 200
    /\ Given(req["r1"].input.title) /\ Given(req["r1"].input.content)
    /\ notes = <<>>

\* C28: archive and trash by the owner on the same Active note in flight at
\* once: in every interleaving trash is answered 200 and the note ends in TRASH;
\* archive is answered 200 when its update finds the note still Active, that is
\* before the trash took effect, and 404 when the note is trashed already.
ArchiveAndTrash(n) ==
    /\ BothDone("archive", "trash", n) \/ BothDone("trash", "archive", n)
    /\ notes0[n].status = "ACTIVE"

ArchiveVsTrash(s, n) ==
    (Answers(s, "archive", n) /\ n \in DOMAIN notes0 /\ notes0[n].status = "ACTIVE"
        /\ req[s].user = notes0[n].userId) =>
        \A t \in Requests \ {s} :
            /\ req[t].pc # "done" => req'[s].res = 200
            /\ (req[t].pc = "done" /\ req[t].op = "trash" /\ req[t].id = n
                    /\ req[t].user = req[s].user) =>
                  (req[t].res = 200 /\ req'[s].res = 404)

C28_ArchiveTrashRace ==
    [][\A n \in NoteIds :
          /\ \A s \in Requests : ArchiveVsTrash(s, n)
          /\ ArchiveAndTrash(n)' =>
                /\ \A s \in Requests : req'[s].op = "trash" => req'[s].res = 200
                /\ notes'[n].status = "TRASH"
      ]_vars

\* the archive took effect first, the trash moved the archived note on
C28_Witness ==
    /\ BothDone("archive", "trash", 1) /\ notes0[1].status = "ACTIVE"
    /\ req["r1"].res = 200 /\ req["r2"].res = 200
    /\ notes[1].status = "TRASH"

\* C29: every answer of the active list returns at most `total` notes and at
\* most pageSize notes.
C29_ListSnapshot ==
    \A s \in Requests :
        (ListAnswered(s) /\ req[s].res = 200) =>
            /\ Len(req[s].body.notes) <= req[s].body.total
            /\ Len(req[s].body.notes) <= req[s].body.limit

InFlight(s) == req[s].pc \in {"handler", "found"}
Answered(s) == req[s].pc = "done"

\* a response is sent by the step that ends the request and by no other step;
\* the guard's step either rejects (a response) or passes (no response)
OneResponse(s) ==
    /\ Answered(s) => req'[s] = req[s]
    /\ (req'[s].res # req[s].res) => (~Answered(s) /\ req'[s].pc = "done")
    /\ (req'[s].pc = "done") => req'[s].res # 0
    /\ (req[s].pc = "idle" /\ req'[s].pc # "idle") =>
           \/ req'[s].pc = "done" /\ req'[s].op = "none" /\ req'[s].res \in {401, 500}
           \/ req'[s].pc = "handler" /\ req'[s].res = 0 /\ req'[s].user # NoUser
    /\ InFlight(s)' => req'[s].res = 0

\* C30: with every storage call returning or throwing, a request to a guarded
\* endpoint is answered eventually and exactly once: the guard either rejects it
\* or passes it on, and the handler answers once on every path.
C30_ExactlyOneResponse ==
    /\ \A s \in Requests : (req[s].pc # "idle") ~> Answered(s)
    /\ [][\A s \in Requests : OneResponse(s)]_vars

C30_Witness ==
    \E s, t \in Requests :
        /\ s # t
        /\ Answered(s) /\ req[s].op = "update" /\ req[s].res = 500 /\ calls[s] = 3
        /\ Answered(t) /\ req[t].op = "delete" /\ req[t].res = 200
====
